---- MODULE Spec2Model ----
(***************************************************************************)
(* The WebSocketClient connection manager of the scan dashboard            *)
(* (src/src/components/ScanControlWS.tsx, class WebSocketClient) as a      *)
(* state machine.  One action is one task of the single-threaded event     *)
(* loop (a public call, a transport event, a timer firing) together with   *)
(* every promise reaction (microtask) it triggers.                         *)
(*                                                                         *)
(* A transport object and the connect() promise whose resolve/reject its   *)
(* listeners close over share one slot of tr.  The browser WebSocket       *)
(* object is the environment: it opens, delivers frames, and closes with   *)
(* a close code, optionally preceded by an error event.                    *)
(***************************************************************************)
EXTENDS Integers, Sequences, FiniteSets, TLC

\* ---------------------------------------------------------------- bounds
MaxTransports == 2      \* transport objects (with their closures) alive at once
MaxLeaked == 1          \* handshake listener pairs left behind by timeouts
MaxReconnectCalls == 2  \* reconnect calls of ScanControl counted between two starts

\* ------------------------------------------------------ program constants
maxReconnectAttempts == 10
maxReconnectInterval == 30000
BaseInterval == 1000
NormalClosure == 1000

Tokens == {"t1"}
NoToken == "null"
CloseCodes == {NormalClosure, 1006}
\* the notifications the manager emits about its own transitions
LifecycleTypes == {"disconnected", "reconnecting", "reconnected",
                   "max_reconnect_attempts_reached"}
\* the type fields of inbound frames
FrameTypes == {"auth_success", "auth_error", "progress", "scan_status", "pong",
               "reconnected"}
\* consumer handlers, and the event types they are registered for
Handlers == {"h1", "h2"}
RegTypes == {"progress", "scan_status", "pong"}
Registrable == {<<"progress", "h1">>, <<"progress", "h2">>,
                <<"scan_status", "h1">>, <<"pong", "h1">>}
Malformed == "not-json"
\* the text null: it parses, and reading its type field throws
NullFrame == "null"
\* a JSON value without a type field: its type reads as undefined
NoType == "undefined"
NonEnvelopes == {Malformed, NullFrame, NoType}
RecCap == maxReconnectAttempts + 1

Slots == 1..MaxTransports
Min(a, b) == IF a < b THEN a ELSE b

VARIABLES
    ws,                 \* this.ws: 0 (null) or the slot of the held transport
    token,              \* this.token
    authenticated,      \* this.authenticated
    reconnectAttempts,  \* this.reconnectAttempts
    reconnectInterval,  \* this.reconnectInterval
    heartbeatInterval,  \* this.heartbeatInterval is set (an interval timer exists)
    reconnectTimeout,   \* this.reconnectTimeout: "null" or "pending" (a fired handle is inert)
    connectionState,    \* this.connectionState
    leaked,             \* handshake listener pairs still in eventHandlers after their timeout
    tr,                 \* slot -> transport, its connect() promise, settle timer, handshake
    urlOk,              \* new WebSocket(this.url) does not throw
    ev,                 \* what the last task did, in order (observation only)
    userDisc,           \* disconnect() was called and the user has not called connect() since
    everAuth,           \* the authenticated flag has been set at least once
    loop,               \* "none", or how the reconnect policy was when onclose last handed
                        \* off and neither an authentication nor disconnect() followed:
                        \* "fresh" (0 attempts, 1000 ms) or "used"
    nRec,               \* 'reconnecting' notifications of that loop so far
    tainted,            \* a manual connect() ran while the pending reconnect timer was pending
    eventHandlers,      \* this.eventHandlers, the consumers' part: the types that have
                        \* an entry -> their handlers in insertion order
    dupOn,              \* the registrations on() was called for again while they stood
    counting,           \* the sequential specification: one transport at a time, consumer
                        \* handlers that only observe, and a loop's notifications counted
    hook,               \* the useWebSocket instances: whether each is mounted, its enabled
                        \* option, and its refs wsClient and handlersRegistered
    sc                  \* the ScanControl component: its state, the scan status query,
                        \* the timeout of its reconnect effect and whether the effect is
                        \* due to run again

vars == <<ws, token, authenticated, reconnectAttempts, reconnectInterval,
          heartbeatInterval, reconnectTimeout, connectionState, leaked, tr,
          urlOk, ev, userDisc, everAuth, loop, nRec, tainted,
          eventHandlers, dupOn, counting, hook, sc>>

FreeSlot == [rs |-> "FREE", wasOpen |-> FALSE, au |-> FALSE, kind |-> "manual",
             fd |-> FALSE, settled |-> TRUE, settle |-> FALSE, hs |-> FALSE]

\* The state as one value, threaded through the handlers below.
Cur == [ws |-> ws, token |-> token, authenticated |-> authenticated,
        reconnectAttempts |-> reconnectAttempts,
        reconnectInterval |-> reconnectInterval,
        heartbeatInterval |-> heartbeatInterval,
        reconnectTimeout |-> reconnectTimeout,
        connectionState |-> connectionState, leaked |-> leaked, tr |-> tr,
        ev |-> <<>>, userDisc |-> userDisc, everAuth |-> everAuth,
        loop |-> loop, nRec |-> nRec, tainted |-> tainted,
        eventHandlers |-> eventHandlers, dupOn |-> dupOn,
        urlOk |-> urlOk, counting |-> counting, hook |-> hook, sc |-> sc]

Log(s, r) == [s EXCEPT !.ev = Append(@, r)]

\* ------------------------------------------------------------- heartbeat
stopHeartbeat(s) == [s EXCEPT !.heartbeatInterval = FALSE]

startHeartbeat(s) == [stopHeartbeat(s) EXCEPT !.heartbeatInterval = TRUE]

\* ------------------------------------------------------------------ send
send(s, type) ==
    IF s.ws # 0 /\ s.tr[s.ws].rs = "OPEN"
    THEN LET s1 == [s EXCEPT !.tr[s.ws].au = (@ \/ type = "auth")]
         IN IF type = "ping"
            THEN Log(s1, [e |-> "ping", st |-> s.connectionState])
            ELSE s1
    ELSE s

\* ------------------------------------------------------- reconnect timer
clearReconnectTimeout(s) ==
    IF s.reconnectTimeout # "null"
    THEN [s EXCEPT !.reconnectTimeout = "null", !.tainted = FALSE]
    ELSE s

\* WebSocket.close(code): an open or connecting transport starts closing
wsClose(s, i, code) ==
    LET s1 == IF s.tr[i].rs \in {"CONNECTING", "OPEN"}
              THEN [s EXCEPT !.tr[i].rs = "CLOSING",
                             !.tr[i].wasOpen = (s.tr[i].rs = "OPEN"),
                             !.tr[i].au = FALSE]
              ELSE s
    IN Log(s1, [e |-> "ws_close", code |-> code, rs |-> s1.tr[i].rs])

\* ------------------------------------------------------------ disconnect
\* mutant: disconnect() leaves a pending reconnect timer alone
disconnect_keepTimer(s) ==
    LET s1 == [s EXCEPT !.authenticated = FALSE,
                        !.connectionState = "disconnected",
                        !.userDisc = TRUE, !.loop = "none", !.nRec = 0]
        s2 == stopHeartbeat(s1)
        s3 == IF s2.ws # 0
              THEN [wsClose(s2, s2.ws, NormalClosure) EXCEPT !.ws = 0]
              ELSE s2
    IN Log(s3, [e |-> "disconnect_return",
                st |-> s3.connectionState, auth |-> s3.authenticated,
                hb |-> s3.heartbeatInterval, timer |-> s3.reconnectTimeout,
                ws |-> s3.ws, held |-> s.ws # 0,
                hadTimer |-> s.reconnectTimeout = "pending"])

\* mutant: disconnect() also empties the consumer registry
disconnect_clearsHandlers(s) ==
    LET s1 == [s EXCEPT !.authenticated = FALSE,
                        !.connectionState = "disconnected",
                        !.userDisc = TRUE, !.loop = "none", !.nRec = 0,
                        !.eventHandlers = [t \in {} |-> <<>>]]
        s2 == clearReconnectTimeout(stopHeartbeat(s1))
        s3 == IF s2.ws # 0
              THEN [wsClose(s2, s2.ws, NormalClosure) EXCEPT !.ws = 0]
              ELSE s2
    IN Log(s3, [e |-> "disconnect_return",
                st |-> s3.connectionState, auth |-> s3.authenticated,
                hb |-> s3.heartbeatInterval, timer |-> s3.reconnectTimeout,
                ws |-> s3.ws, held |-> s.ws # 0,
                hadTimer |-> s.reconnectTimeout = "pending"])

disconnect(s) ==
    LET s1 == [s EXCEPT !.authenticated = FALSE,
                        !.connectionState = "disconnected",
                        !.userDisc = TRUE, !.loop = "none", !.nRec = 0]
        s2 == clearReconnectTimeout(stopHeartbeat(s1))
        s3 == IF s2.ws # 0
              THEN [wsClose(s2, s2.ws, NormalClosure) EXCEPT !.ws = 0]
              ELSE s2
    IN Log(s3, [e |-> "disconnect_return",
                st |-> s3.connectionState, auth |-> s3.authenticated,
                hb |-> s3.heartbeatInterval, timer |-> s3.reconnectTimeout,
                ws |-> s3.ws, held |-> s.ws # 0,
                hadTimer |-> s.reconnectTimeout = "pending"])

\* ------------------------------------------------------------------ emit
\* Consumer handlers only observe, except that a 'disconnected' handler may
\* call disconnect() (hd).
emit(s, r) == Log(s, r)

emitDisconnected(s, code, hd) ==
    IF hd THEN disconnect(s) ELSE s

\* ------------------------------------------------------ attemptReconnect
attemptReconnect(s) ==
    IF s.reconnectAttempts >= maxReconnectAttempts
    THEN emit(s, [e |-> "max_reconnect_attempts_reached",
                  attempts |-> s.reconnectAttempts])
    ELSE LET n == s.reconnectAttempts + 1
             k == IF s.loop # "none" THEN Min(s.nRec + 1, RecCap) ELSE s.nRec
             s1 == [s EXCEPT !.reconnectAttempts = n, !.nRec = k]
             s2 == emit(s1, [e |-> "reconnecting", attempt |-> n,
                             maxAttempts |-> maxReconnectAttempts,
                             delay |-> s.reconnectInterval,
                             k |-> k, loop |-> s.loop,
                             afterDisc |-> s.userDisc, everAuth |-> s.everAuth])
             s3 == clearReconnectTimeout(s2)
         IN [s3 EXCEPT !.reconnectTimeout = "pending", !.tainted = FALSE]

\* the reactions attemptReconnect attaches to the promise of its connect()
schedThen(s) ==
    emit(s, [e |-> "reconnected", st |-> s.connectionState,
             attempts |-> s.reconnectAttempts])

\* mutant: the interval is doubled without the cap
schedCatch_noCap(s) ==
    attemptReconnect([s EXCEPT !.reconnectInterval = @ * 2])

schedCatch(s) ==
    attemptReconnect([s EXCEPT !.reconnectInterval =
                                  Min(@ * 2, maxReconnectInterval)])

\* resolve / reject of the connect() promise of slot i (a promise settles once)
resolveP(s, i) ==
    IF s.tr[i].settled THEN s
    ELSE LET kind == s.tr[i].kind
             s1 == Log([s EXCEPT !.tr[i].settled = TRUE],
                       [e |-> "resolve", kind |-> kind,
                        st |-> s.connectionState, early |-> FALSE])
         IN IF kind = "sched" THEN schedThen(s1) ELSE s1

\* mutant: every rejected connect() is retried, whoever awaits it
rejectP_alwaysRetry(s, i, cause) ==
    IF s.tr[i].settled THEN s
    ELSE schedCatch(Log([s EXCEPT !.tr[i].settled = TRUE],
                        [e |-> "reject", kind |-> s.tr[i].kind, cause |-> cause,
                         fd |-> s.tr[i].fd, st |-> s.connectionState,
                         everAuth |-> s.everAuth]))

rejectP(s, i, cause) ==
    IF s.tr[i].settled THEN s
    ELSE LET kind == s.tr[i].kind
             s1 == Log([s EXCEPT !.tr[i].settled = TRUE],
                       [e |-> "reject", kind |-> kind, cause |-> cause,
                        fd |-> s.tr[i].fd, st |-> s.connectionState,
                        everAuth |-> s.everAuth])
         IN IF kind = "sched" THEN schedCatch(s1) ELSE s1

\* --------------------------------------------------------------- connect
\* kind: who awaits the promise ("manual": the caller, "sched": the reactions
\* of attemptReconnect); i: the slot of the transport it creates.
\* mutant: a connect() that finds the client connected cancels the reconnect timer
connect_clearsTimer(s, tok, kind, i) ==
    IF s.connectionState \in {"connected", "authenticated"}
    THEN LET s1 == Log(clearReconnectTimeout(s),
                       [e |-> "resolve", kind |-> kind,
                        st |-> s.connectionState, early |-> TRUE])
         IN IF kind = "sched" THEN schedThen(s1) ELSE s1
    ELSE LET s1 == [s EXCEPT !.token = tok, !.connectionState = "connecting"]
         IN IF s.urlOk
            THEN Log([s1 EXCEPT !.ws = i,
                                !.tr[i] = [FreeSlot EXCEPT
                                             !.rs = "CONNECTING",
                                             !.kind = kind,
                                             !.fd = (s.connectionState = "disconnected"),
                                             !.settled = FALSE]],
                     [e |-> "transport_new", by |-> kind,
                      afterDisc |-> s.userDisc])
            ELSE LET s2 == Log([s1 EXCEPT !.connectionState = "disconnected"],
                               [e |-> "reject", kind |-> kind, cause |-> "create",
                                fd |-> (s.connectionState = "disconnected"),
                                st |-> "disconnected", everAuth |-> s.everAuth])
                 IN IF kind = "sched" THEN schedCatch(s2) ELSE s2

\* mutant: a throwing constructor leaves the state at connecting
connect_keepsConnecting(s, tok, kind, i) ==
    IF s.connectionState \in {"connected", "authenticated"}
    THEN LET s1 == Log(s, [e |-> "resolve", kind |-> kind,
                           st |-> s.connectionState, early |-> TRUE])
         IN IF kind = "sched" THEN schedThen(s1) ELSE s1
    ELSE LET s1 == [s EXCEPT !.token = tok, !.connectionState = "connecting"]
         IN IF s.urlOk
            THEN Log([s1 EXCEPT !.ws = i,
                                !.tr[i] = [FreeSlot EXCEPT
                                             !.rs = "CONNECTING",
                                             !.kind = kind,
                                             !.fd = (s.connectionState = "disconnected"),
                                             !.settled = FALSE]],
                     [e |-> "transport_new", by |-> kind,
                      afterDisc |-> s.userDisc])
            ELSE LET s2 == Log(s1, [e |-> "reject", kind |-> kind, cause |-> "create",
                                    fd |-> (s.connectionState = "disconnected"),
                                    st |-> "connecting", everAuth |-> s.everAuth])
                 IN IF kind = "sched" THEN schedCatch(s2) ELSE s2

connect(s, tok, kind, i) ==
    IF s.connectionState \in {"connected", "authenticated"}
    THEN LET s1 == Log(s, [e |-> "resolve", kind |-> kind,
                           st |-> s.connectionState, early |-> TRUE])
         IN IF kind = "sched" THEN schedThen(s1) ELSE s1
    ELSE LET s1 == [s EXCEPT !.token = tok, !.connectionState = "connecting"]
         IN IF s.urlOk
            THEN Log([s1 EXCEPT !.ws = i,
                                !.tr[i] = [FreeSlot EXCEPT
                                             !.rs = "CONNECTING",
                                             !.kind = kind,
                                             !.fd = (s.connectionState = "disconnected"),
                                             !.settled = FALSE]],
                     [e |-> "transport_new", by |-> kind,
                      afterDisc |-> s.userDisc])
            ELSE LET s2 == Log([s1 EXCEPT !.connectionState = "disconnected"],
                               [e |-> "reject", kind |-> kind, cause |-> "create",
                                fd |-> (s.connectionState = "disconnected"),
                                st |-> "disconnected", everAuth |-> s.everAuth])
                 IN IF kind = "sched" THEN schedCatch(s2) ELSE s2

\* ---------------------------------------------------------- authenticate
authenticate(s, i) ==
    IF s.token = NoToken \/ s.ws = 0
    THEN rejectP(s, i, "no_connection")
    ELSE send([s EXCEPT !.tr[i].hs = TRUE], "auth")

\* the 5000 ms authTimeout of the handshake of slot i
authTimeout(s, i) ==
    rejectP([s EXCEPT !.tr[i].hs = FALSE, !.leaked = @ + 1], i, "auth_timeout")

RECURSIVE resolveAll(_, _)
resolveAll(s, S) ==
    IF S = {} THEN s
    ELSE LET i == CHOOSE x \in S : \A y \in S : x <= y
         IN resolveAll(resolveP(startHeartbeat(s), i), S \ {i})

RECURSIVE rejectAll(_, _, _)
rejectAll(s, S, cause) ==
    IF S = {} THEN s
    ELSE LET i == CHOOSE x \in S : \A y \in S : x <= y
         IN rejectAll(rejectP(s, i, cause), S \ {i}, cause)

Live(s) == {i \in Slots : s.tr[i].hs}

\* every registered handleAuthResponse runs, then the promise reactions
handleAuthResponse(s) ==
    IF Live(s) = {} /\ s.leaked = 0 THEN s
    ELSE LET s1 == [s EXCEPT !.authenticated = TRUE,
                             !.connectionState = "authenticated",
                             !.everAuth = TRUE,
                             !.nRec = 0, !.loop = "none",
                             !.leaked = 0,
                             !.tr = [i \in Slots |-> [s.tr[i] EXCEPT !.hs = FALSE]]]
             s2 == Log(s1, [e |-> "authenticated",
                            attempts |-> s.reconnectAttempts,
                            interval |-> s.reconnectInterval,
                            live |-> Live(s) # {}])
         IN resolveAll(s2, Live(s))

\* every registered handleAuthError runs, then the promise reactions
handleAuthError(s) ==
    LET s1 == [s EXCEPT !.leaked = 0,
                        !.tr = [i \in Slots |-> [s.tr[i] EXCEPT !.hs = FALSE]]]
    IN rejectAll(s1, Live(s), "auth_error")

\* ------------------------------------------------------- on / off / emit
InSeq(h, hs) == \E k \in DOMAIN hs : hs[k] = h

\* this.eventHandlers is a Map: a type is a key of it or not
EmptyRegistry == [t \in {} |-> <<>>]

\* Map.get(type), with no handlers for a missing key
Registered(s, type) ==
    IF type \in DOMAIN s.eventHandlers THEN s.eventHandlers[type] ELSE <<>>

\* Map.set(type, hs)
MapSet(m, type, hs) ==
    [t \in DOMAIN m \cup {type} |-> IF t = type THEN hs ELSE m[t]]

\* Map.delete(type)
MapDelete(m, type) == [t \in DOMAIN m \ {type} |-> m[t]]

\* mutant: the handlers of a type are kept in a list
on_append(s, type, h) ==
    [s EXCEPT !.eventHandlers = MapSet(@, type, Append(Registered(s, type), h)),
              !.dupOn = IF InSeq(h, Registered(s, type))
                        THEN @ \cup {<<type, h>>} ELSE @]

\* the set of the type is created if absent; Set.add: a handler already in
\* the set is not added again
on(s, type, h) ==
    IF InSeq(h, Registered(s, type))
    THEN [s EXCEPT !.dupOn = @ \cup {<<type, h>>}]
    ELSE [s EXCEPT !.eventHandlers = MapSet(@, type, Append(Registered(s, type), h))]

\* mutant: off() leaves the emptied set of the type in the map
off_keepsEmptySet(s, type, h) ==
    Log([s EXCEPT !.eventHandlers =
                     IF type \in DOMAIN @
                     THEN MapSet(@, type, SelectSeq(@[type], LAMBDA x : x # h))
                     ELSE @,
                  !.dupOn = @ \ {<<type, h>>}],
        [e |-> "off", type |-> type, h |-> h,
         was |-> InSeq(h, Registered(s, type)),
         dup |-> <<type, h>> \in s.dupOn])

\* Set.delete, then Map.delete when the set has become empty
off(s, type, h) ==
    LET rest == SelectSeq(Registered(s, type), LAMBDA x : x # h)
    IN Log([s EXCEPT !.eventHandlers =
                        IF type \notin DOMAIN @ THEN @
                        ELSE IF rest = <<>> THEN MapDelete(@, type)
                        ELSE MapSet(@, type, rest),
                     !.dupOn = @ \ {<<type, h>>}],
           [e |-> "off", type |-> type, h |-> h,
            was |-> InSeq(h, Registered(s, type)),
            dup |-> <<type, h>> \in s.dupOn])

\* mutant: a handler that throws ends the iteration
RECURSIVE forEach_abortOnThrow(_, _, _, _)
forEach_abortOnThrow(s, type, hs, th) ==
    IF hs = <<>> THEN s
    ELSE LET s1 == Log(s, [e |-> "call", type |-> type, h |-> Head(hs),
                           threw |-> Head(hs) \in th])
         IN IF Head(hs) \in th THEN s1
            ELSE forEach_abortOnThrow(s1, type, Tail(hs), th)

\* mutant: only the first handler of the set is invoked
forEach_firstOnly(s, type, hs, th) ==
    IF hs = <<>> THEN s
    ELSE Log(s, [e |-> "call", type |-> type, h |-> Head(hs),
                 threw |-> Head(hs) \in th])

\* handlers.forEach of emit: each handler runs inside try/catch; th are the
\* handlers that throw
RECURSIVE forEach(_, _, _, _)
forEach(s, type, hs, th) ==
    IF hs = <<>> THEN s
    ELSE forEach(Log(s, [e |-> "call", type |-> type, h |-> Head(hs),
                         threw |-> Head(hs) \in th]),
                 type, Tail(hs), th)

\* the client's own state, for comparing before and after
View(s) == <<s.ws, s.token, s.authenticated, s.reconnectAttempts,
             s.reconnectInterval, s.heartbeatInterval, s.reconnectTimeout,
             s.connectionState, s.leaked, s.tr, s.eventHandlers>>

\* --------------------------------------------------------- handleMessage
\* mutant: pong frames are dispatched like any other frame
handleMessage_noPongFilter(s, type, th) ==
    CASE type = "auth_success" -> handleAuthResponse(s)
      [] type = "auth_error" -> handleAuthError(s)
      [] OTHER -> forEach(s, type, Registered(s, type), th)

handleMessage(s, type, th) ==
    IF type = "pong" THEN s
    ELSE CASE type = "auth_success" -> handleAuthResponse(s)
           [] type = "auth_error" -> handleAuthError(s)
           [] OTHER -> forEach(s, type, Registered(s, type), th)

\* the arrival of a frame that consumers are registered for is noted, with
\* the registered handlers and the client's state at that moment
Arrive(s, type) ==
    IF Registered(s, type) = <<>> THEN s
    ELSE Log(s, [e |-> "frame", type |-> type,
                 registered |-> Registered(s, type), pre |-> View(s)])

\* observation: a frame that is no envelope has arrived
NoteNonEnvelope(s, data) ==
    IF s.counting /\ data \in NonEnvelopes
    THEN Log(s, [e |-> "malformed", data |-> data])
    ELSE s

\* mutant: a frame that does not parse is handled as a progress frame
onmessage_dispatchMalformed(s, data, th) ==
    LET s1 == NoteNonEnvelope(s, data)
        d == IF data \in NonEnvelopes THEN "progress" ELSE data
    IN handleMessage(Arrive(s1, d), d, th)

\* JSON.parse or handleMessage throwing lands in the catch, which only logs
onmessage(s, data, th) ==
    LET s1 == NoteNonEnvelope(s, data)
    IN IF data \in {Malformed, NullFrame} THEN s1
       ELSE handleMessage(Arrive(s1, data), data, th)

\* --------------------------------------------------- transport listeners
onopen(s, i) ==
    [s EXCEPT !.connectionState = "connected",
              !.reconnectAttempts = 0,
              !.reconnectInterval = BaseInterval,
              !.tr[i].settle = TRUE]

\* the 100 ms callback scheduled by onopen
settleCallback(s, i) ==
    LET s1 == [s EXCEPT !.tr[i].settle = FALSE]
    IN IF s1.ws # 0 /\ s1.tr[s1.ws].rs = "OPEN"
       THEN authenticate(s1, i)
       ELSE rejectP(s1, i, "closed_before_auth")

\* observation: the error event of transport i, and what its handler found
NoteError(s, i) ==
    IF s.counting
    THEN Log(s, [e |-> "error", st |-> s.connectionState,
                 pending |-> ~s.tr[i].settled,
                 attempts |-> s.reconnectAttempts,
                 interval |-> s.reconnectInterval,
                 registered |-> Registered(s, "error")])
    ELSE s

\* observation: the state and the policy when the error handler is done
NoteErrorReturn(s) ==
    IF s.counting
    THEN Log(s, [e |-> "error_return", st |-> s.connectionState,
                 attempts |-> s.reconnectAttempts,
                 interval |-> s.reconnectInterval])
    ELSE s

\* mutant: the error handler gives the connection up itself
onerror_resetsState(s, i, th) ==
    LET s1 == forEach(NoteError(s, i), "error", Registered(s, "error"), th)
        s2 == NoteErrorReturn([s1 EXCEPT !.connectionState = "disconnected"])
    IN IF s1.connectionState = "connecting"
       THEN rejectP(s2, i, "transport_error")
       ELSE s2

\* emit('error'), then reject() while connecting; the reactions of the
\* rejected promise run when the handler has returned
onerror(s, i, th) ==
    LET s1 == forEach(NoteError(s, i), "error", Registered(s, "error"), th)
        s2 == NoteErrorReturn(s1)
    IN IF s1.connectionState = "connecting"
       THEN rejectP(s2, i, "transport_error")
       ELSE s2

\* mutant: the close handler does not look at wasAuthenticated
onclose_anySession(s, code, hd) ==
    LET s1 == stopHeartbeat([s EXCEPT !.authenticated = FALSE,
                                      !.connectionState = "disconnected",
                                      !.ws = 0])
        s2 == Log(s1, [e |-> "close", code |-> code, wasAuth |-> s.authenticated,
                       hb |-> s1.heartbeatInterval,
                       fresh |-> (s.reconnectAttempts = 0
                                  /\ s.reconnectInterval = BaseInterval)])
        s3 == emitDisconnected(s2, code, hd)
    IN IF code # NormalClosure THEN attemptReconnect(s3) ELSE s3

\* mutant: 'disconnected' is emitted before the heartbeat is stopped
onclose_emitFirst(s, code, hd) ==
    LET wasAuthenticated == s.authenticated
        s1 == [s EXCEPT !.authenticated = FALSE,
                        !.connectionState = "disconnected",
                        !.ws = 0]
        s2 == Log(s1, [e |-> "close", code |-> code, wasAuth |-> wasAuthenticated,
                       hb |-> s1.heartbeatInterval,
                       fresh |-> (s.reconnectAttempts = 0
                                  /\ s.reconnectInterval = BaseInterval)])
        s3 == stopHeartbeat(emitDisconnected(s2, code, hd))
    IN IF code # NormalClosure /\ wasAuthenticated
       THEN attemptReconnect(
                [s3 EXCEPT !.nRec = 0,
                           !.loop = IF ~s.counting THEN "none"
                                    ELSE IF s3.reconnectAttempts = 0
                                            /\ s3.reconnectInterval = BaseInterval
                                         THEN "fresh" ELSE "used"])
       ELSE s3

\* the "close" entry of the log stands for the 'disconnected' notification:
\* hb is the heartbeat at the moment it is emitted, fresh tells whether the
\* retry policy was at its initial values when the close event arrived
onclose(s, code, hd) ==
    LET wasAuthenticated == s.authenticated
        s1 == stopHeartbeat([s EXCEPT !.authenticated = FALSE,
                                      !.connectionState = "disconnected",
                                      !.ws = 0])
        s2 == Log(s1, [e |-> "close", code |-> code, wasAuth |-> wasAuthenticated,
                       hb |-> s1.heartbeatInterval,
                       fresh |-> (s.reconnectAttempts = 0
                                  /\ s.reconnectInterval = BaseInterval)])
        s3 == emitDisconnected(s2, code, hd)
    IN IF code # NormalClosure /\ wasAuthenticated
       THEN attemptReconnect(
                [s3 EXCEPT !.nRec = 0,
                           !.loop = IF ~s.counting THEN "none"
                                    ELSE IF s3.reconnectAttempts = 0
                                            /\ s3.reconnectInterval = BaseInterval
                                         THEN "fresh" ELSE "used"])
       ELSE s3

\* the callback of the reconnect timer
reconnectCallback(s, i) ==
    LET s1 == Log([s EXCEPT !.reconnectTimeout = "null"],
                  [e |-> "timer_fire", tainted |-> s.tainted,
                   afterDisc |-> s.userDisc])
        s2 == [s1 EXCEPT !.tainted = FALSE]
    IN IF s2.token # NoToken THEN connect(s2, s2.token, "sched", i) ELSE s2

\* the callback of the heartbeat interval
heartbeatCallback(s) ==
    IF s.authenticated THEN send(s, "ping") ELSE s

\* ------------------------------------------------- objects no longer used
\* A closed transport whose promise no timer or listener can reach any more
\* is dropped; fields nothing reads any more take their default.
\* the connect() promises that are unsettled while nothing holds their
\* resolve / reject any more: the transport is closed (no further event), the
\* settle delay is not pending and no handshake listener or timeout is left
Abandoned(s) ==
    {i \in Slots : /\ s.tr[i].rs = "CLOSED" /\ ~s.tr[i].settle /\ ~s.tr[i].hs
                   /\ s.ws # i /\ ~s.tr[i].settled}

\* the sequential specification notes a promise that is abandoned
NoteAbandoned(s) ==
    IF s.counting /\ Abandoned(s) # {} THEN Log(s, [e |-> "abandoned"]) ELSE s

Reclaim(s) ==
    [s EXCEPT !.tr = [i \in Slots |->
        LET t == s.tr[i]
        IN IF t.rs = "CLOSED" /\ ~t.settle /\ ~t.hs /\ s.ws # i
           THEN FreeSlot
           ELSE IF t.settled THEN [t EXCEPT !.kind = "manual", !.fd = FALSE]
           ELSE t]]

Commit(s0) ==
    LET s == Reclaim(NoteAbandoned(s0))
    IN /\ ws' = s.ws
       /\ token' = s.token
       /\ authenticated' = s.authenticated
       /\ reconnectAttempts' = s.reconnectAttempts
       /\ reconnectInterval' = s.reconnectInterval
       /\ heartbeatInterval' = s.heartbeatInterval
       /\ reconnectTimeout' = s.reconnectTimeout
       /\ connectionState' = s.connectionState
       /\ leaked' = s.leaked
       /\ tr' = s.tr
       /\ ev' = s.ev
       /\ userDisc' = s.userDisc
       /\ everAuth' = s.everAuth
       /\ loop' = s.loop
       /\ nRec' = s.nRec
       /\ tainted' = s.tainted
       /\ eventHandlers' = s.eventHandlers
       /\ dupOn' = s.dupOn
       /\ hook' = s.hook
       /\ sc' = s.sc
       /\ UNCHANGED <<urlOk, counting>>

\* the sequential specification follows one transport at a time
\* ------------------------------------------------- the useWebSocket adapter
\* an instance of the hook before it is mounted; the instances are named
\* after the handlers they register, which are closures of their own
Unmounted == [mounted |-> FALSE, enabled |-> FALSE, used |-> FALSE,
              wsClient |-> FALSE, handlersRegistered |-> FALSE]
NoHooks == [h \in Handlers |-> Unmounted]

\* event types the adapter registers handlers for
AdapterTypes == <<"reconnected", "progress", "scan_status", "error">>

RECURSIVE registerHandlers(_, _, _)
registerHandlers(s, types, h) ==
    IF types = <<>> THEN s
    ELSE registerHandlers(on(s, Head(types), h), Tail(types), h)

\* the connect callback of instance h, with the token found in localStorage
hookConnect(s, h, tok, i) ==
    IF ~s.hook[h].enabled THEN s
    ELSE IF s.hook[h].wsClient /\ s.connectionState = "authenticated" THEN s
    ELSE IF tok = NoToken THEN s
    ELSE LET s1 == [s EXCEPT !.hook[h].wsClient = TRUE]
             s2 == IF s1.hook[h].handlersRegistered THEN s1
                   ELSE [registerHandlers(s1, AdapterTypes, h)
                            EXCEPT !.hook[h].handlersRegistered = TRUE]
             proceeds == s2.connectionState \notin {"connected", "authenticated"}
             s3 == [s2 EXCEPT !.userDisc = FALSE,
                              !.tainted = @ \/ (proceeds /\ s2.reconnectTimeout = "pending")]
         IN connect(s3, tok, "manual", i)

\* the disconnect callback of instance h
hookDisconnect(s, h) ==
    IF s.hook[h].wsClient THEN disconnect(s) ELSE s

\* the body of the auto-connect effect
hookEffect(s, h, tok, i) ==
    IF s.hook[h].enabled THEN hookConnect(s, h, tok, i) ELSE hookDisconnect(s, h)

\* the cleanup the effect returned, which closed over enabled
hookCleanup(s, h) ==
    IF ~s.hook[h].enabled THEN hookDisconnect(s, h) ELSE s

\* whether the effect of instance h in state s gets as far as client.connect()
\* and that creates a transport, for which slot 1 is used
CreatesTransport(s, h, tok) ==
    /\ s.hook[h].enabled
    /\ ~(s.hook[h].wsClient /\ s.connectionState = "authenticated")
    /\ tok # NoToken
    /\ s.connectionState \notin {"connected", "authenticated"}
    /\ s.urlOk
SlotFor(s, h, tok) == IF CreatesTransport(s, h, tok) THEN 1 ELSE 0
CanConnect(s, h, tok) == CreatesTransport(s, h, tok) => s.tr[1].rs = "FREE"

\* ------------------------------------------- the EventSource ScanControl
CurrentYear == 2026
\* scanStatus.year: 0 when the status does not carry one
StatusYears == {0, 2025}
\* the years the user can start a scan for
SelectableYears == {2025, 2026}
NoStream == <<>>

\* the component after its first render, before its effects have run
ScanControlMounted ==
    [isActive |-> FALSE, year |-> 0, eventSource |-> NoStream,
     isPending |-> FALSE, reconnectAttempted |-> FALSE, timeoutId |-> 0,
     effectDue |-> TRUE, starting |-> 0, reconnects |-> 0, authToken |-> TRUE]

\* without a token nothing is opened; otherwise the new stream becomes the state
connectToStreamingEndpoint(s, year, isReconnect) ==
    IF ~s.sc.authToken THEN s
    ELSE [s EXCEPT !.sc.eventSource = <<year, isReconnect>>,
                   !.sc.effectDue = TRUE]

\* the auto-reconnect effect after a render in which one of its dependencies
\* changed: the cleanup of its previous run, then its body
reconnectEffect(s) ==
    LET s1 == [s EXCEPT !.sc.timeoutId = 0]
    IN IF /\ s1.sc.isActive /\ s1.sc.eventSource = NoStream
          /\ ~s1.sc.isPending /\ ~s1.sc.reconnectAttempted
       THEN [s1 EXCEPT !.sc.reconnectAttempted = TRUE,
                       !.sc.timeoutId = IF s1.sc.year # 0 THEN s1.sc.year
                                        ELSE CurrentYear,
                       !.sc.effectDue = TRUE]
       ELSE [s1 EXCEPT !.sc.effectDue = FALSE]

\* the callback of the 500 ms timeout
reconnectTimeoutCallback(s) ==
    connectToStreamingEndpoint(
        [s EXCEPT !.sc.timeoutId = 0, !.sc.reconnects = @ + 1],
        s.sc.timeoutId, TRUE)

\* up to the await of the start mutation
handleStartScan(s, year) ==
    [s EXCEPT !.sc.reconnectAttempted = FALSE, !.sc.isPending = TRUE,
              !.sc.starting = year, !.sc.reconnects = 0,
              !.sc.effectDue = TRUE]

\* the start mutation settles
startScanSettled(s, ok) ==
    LET s1 == [s EXCEPT !.sc.isPending = FALSE, !.sc.starting = 0,
                        !.sc.effectDue = TRUE]
    IN IF ok THEN connectToStreamingEndpoint(s1, s.sc.starting, FALSE) ELSE s1

Usable == IF counting THEN {1} ELSE Slots
HasFree == \E i \in Usable : tr[i].rs = "FREE"
NewSlot == CHOOSE i \in Usable : tr[i].rs = "FREE" /\ \A j \in Usable : j < i => tr[j].rs # "FREE"
\* whether a 'disconnected' consumer handler calls disconnect()
HandlerCalls == IF counting THEN {FALSE} ELSE BOOLEAN
\* which of the handlers registered for the type throw
Throwers(type) ==
    SUBSET {h \in Handlers : InSeq(h, Registered(Cur, type))}
NeedsSlot == connectionState \notin {"connected", "authenticated"} /\ urlOk

St == Cur

\* ---------------------------------------------------------------- actions
UserConnect ==
    \E tok \in Tokens :
        /\ NeedsSlot => HasFree
        /\ LET i == IF NeedsSlot THEN NewSlot ELSE 0
               proceeds == connectionState \notin {"connected", "authenticated"}
               s0 == [St EXCEPT !.userDisc = FALSE,
                                !.tainted = @ \/ (proceeds /\ reconnectTimeout = "pending")]
           IN Commit(connect(s0, tok, "manual", i))

UserDisconnect ==
    \E s \in {disconnect(St)} : Commit(s)

TransportOpen ==
    \E i \in Slots :
        /\ tr[i].rs = "CONNECTING"
        /\ Commit(onopen([St EXCEPT !.tr[i].rs = "OPEN"], i))

SettleTimer ==
    \E i \in Slots :
        /\ tr[i].settle
        /\ Commit(settleCallback(St, i))

AuthTimer ==
    \E i \in Slots :
        /\ tr[i].hs
        /\ leaked < MaxLeaked
        /\ Commit(authTimeout(St, i))

Frame ==
    \E i \in Slots, data \in FrameTypes \cup NonEnvelopes :
        /\ tr[i].rs = "OPEN"
        /\ data \in {"auth_success", "auth_error"} => tr[i].au
        /\ \E th \in Throwers(data) : Commit(onmessage(St, data, th))

TransportClose ==
    \E i \in Slots, code \in CloseCodes, err \in BOOLEAN, hd \in HandlerCalls :
        /\ tr[i].rs \in {"CONNECTING", "OPEN", "CLOSING"}
        /\ (tr[i].rs = "CONNECTING" \/ (tr[i].rs = "CLOSING" /\ ~tr[i].wasOpen))
              => (err /\ code # NormalClosure)
        /\ err => code # NormalClosure
        /\ (tr[i].rs = "CLOSING" /\ ~err) => code = NormalClosure
        /\ LET s0 == [St EXCEPT !.tr[i].rs = "CLOSED", !.tr[i].au = FALSE,
                                !.tr[i].wasOpen = FALSE]
           IN \E th \in IF err THEN Throwers("error") ELSE {{}} :
                 Commit(onclose(IF err THEN onerror(s0, i, th) ELSE s0, code, hd))

ReconnectTimer ==
    /\ reconnectTimeout = "pending"
    /\ NeedsSlot => HasFree
    /\ Commit(reconnectCallback(St, IF NeedsSlot THEN NewSlot ELSE 0))

HeartbeatTimer ==
    /\ heartbeatInterval
    /\ Commit(heartbeatCallback(St))

\* the scan status query delivers a new status
ScanStatus ==
    \E a \in BOOLEAN, y \in StatusYears :
        /\ <<a, y>> # <<sc.isActive, sc.year>>
        /\ Commit([St EXCEPT !.sc.isActive = a, !.sc.year = y,
                             !.sc.effectDue = @ \/ a # sc.isActive])

\* React renders again and runs the effects whose dependencies changed
ScanRender ==
    /\ sc.effectDue
    /\ Commit(reconnectEffect(St))

ScanReconnectTimeout ==
    /\ sc.timeoutId # 0
    /\ sc.reconnects < MaxReconnectCalls
    /\ Commit(reconnectTimeoutCallback(St))

\* the stream fails: onerror closes it and clears the state
ScanStreamError ==
    /\ sc.eventSource # NoStream
    /\ Commit([St EXCEPT !.sc.eventSource = NoStream, !.sc.effectDue = TRUE])

\* the user starts a scan; the buttons are disabled while a start is pending
\* or a scan is active
ScanStart ==
    \E y \in SelectableYears :
        /\ ~sc.isPending
        /\ ~sc.isActive
        /\ Commit(handleStartScan(St, y))

ScanStartSettled ==
    \E ok \in BOOLEAN :
        /\ sc.isPending
        /\ Commit(startScanSettled(St, ok))

\* the user logs in or out: the token in localStorage appears or disappears
ScanToken ==
    \E s \in {[St EXCEPT !.sc.authToken = ~@]} : Commit(s)

\* a component that uses the hook is mounted: its first render and effect
HookMount ==
    \E h \in Handlers, en \in BOOLEAN, tok \in Tokens \cup {NoToken} :
        /\ ~hook[h].used
        /\ h = "h2" => hook["h1"].used
        /\ LET s0 == [St EXCEPT !.hook[h] = [Unmounted EXCEPT !.mounted = TRUE,
                                                              !.used = TRUE,
                                                              !.enabled = en]]
           IN /\ CanConnect(s0, h, tok)
              /\ Commit(hookEffect(s0, h, tok, SlotFor(s0, h, tok)))

\* the enabled option of a mounted instance changes: cleanup, then the effect
HookToggle ==
    \E h \in Handlers, tok \in Tokens \cup {NoToken} :
        /\ hook[h].mounted
        /\ LET s1 == hookCleanup(St, h)
               s2 == [s1 EXCEPT !.hook[h].enabled = ~@]
           IN /\ CanConnect(s2, h, tok)
              /\ Commit(hookEffect(s2, h, tok, SlotFor(s2, h, tok)))

\* the component calls the connect callback the hook returned
HookCallConnect ==
    \E h \in Handlers, tok \in Tokens \cup {NoToken} :
        /\ hook[h].mounted
        /\ CanConnect(St, h, tok)
        /\ Commit(hookConnect(St, h, tok, SlotFor(St, h, tok)))

\* the component is unmounted: the cleanup of the effect runs
HookUnmount ==
    \E h \in Handlers :
        /\ hook[h].mounted
        /\ Commit([hookCleanup(St, h) EXCEPT !.hook[h].mounted = FALSE])

\* a consumer registers or removes a handler
On ==
    \E p \in Registrable : \E s \in {on(St, p[1], p[2])} : Commit(s)

Off ==
    \E p \in Registrable : \E s \in {off(St, p[1], p[2])} : Commit(s)

Next ==
    \/ UserConnect
    \/ UserDisconnect
    \/ TransportOpen
    \/ SettleTimer
    \/ AuthTimer
    \/ Frame
    \/ TransportClose
    \/ ReconnectTimer
    \/ HeartbeatTimer

InitManager ==
    /\ ws = 0
    /\ token = NoToken
    /\ authenticated = FALSE
    /\ reconnectAttempts = 0
    /\ reconnectInterval = BaseInterval
    /\ heartbeatInterval = FALSE
    /\ reconnectTimeout = "null"
    /\ connectionState = "disconnected"
    /\ leaked = 0
    /\ tr = [i \in Slots |-> FreeSlot]
    /\ urlOk \in BOOLEAN
    /\ ev = <<>>
    /\ userDisc = FALSE
    /\ everAuth = FALSE
    /\ loop = "none"
    /\ nRec = 0
    /\ tainted = FALSE
    /\ dupOn = {}
    /\ hook = NoHooks
    /\ sc = ScanControlMounted

InitClient == InitManager /\ eventHandlers = EmptyRegistry

Init == InitClient /\ counting = FALSE

InitCount == InitClient /\ counting = TRUE

Spec == Init /\ [][Next]_vars

SpecCount == InitCount /\ [][Next]_vars

\* The dispatcher: consumers register and remove handlers while one session
\* at a time connects, authenticates, receives frames and closes; the timers
\* of the handshake and of the scheduler do not fire.
NextDispatch ==
    \/ On
    \/ Off
    \/ UserConnect
    \/ UserDisconnect
    \/ TransportOpen
    \/ SettleTimer
    \/ Frame
    \/ TransportClose

InitDispatch == InitCount /\ urlOk

SpecDispatch == InitDispatch /\ [][NextDispatch]_vars

\* Connection churn: the consumers registered their handlers before the first
\* connect() (as the hook does) and call neither on() nor off() afterwards,
\* while sessions connect, authenticate, time out, drop and reconnect.
HookRegistries ==
    {[t \in {"progress", "scan_status", "reconnected", "error"} |->
         IF t \in {"progress", "error"} THEN <<"h1", "h2">> ELSE <<"h1">>],
     [t \in {"pong"} |-> <<"h1">>]}

InitChurn ==
    /\ InitManager
    /\ counting = TRUE
    /\ urlOk
    /\ eventHandlers \in HookRegistries

SpecChurn == InitChurn /\ [][Next]_vars

\* The unattended client: the user connects once and then calls neither
\* connect() nor disconnect(). Every timer that is set fires (the reconnect
\* timer, the 100 ms settle delay, the handshake timeout, the heartbeat), and
\* no transport stays connecting for ever: it opens unless it fails first.
\* The singleton client driven by the hook only.
NextHook ==
    \/ HookMount
    \/ HookToggle
    \/ HookCallConnect
    \/ HookUnmount
    \/ TransportOpen
    \/ SettleTimer
    \/ Frame
    \/ TransportClose

InitHook == InitCount /\ urlOk

SpecHook == InitHook /\ [][NextHook]_vars

\* The ScanControl component on its own.  React runs a due render, and a
\* pending timeout fires.
NextScan ==
    \/ ScanStatus
    \/ ScanRender
    \/ ScanReconnectTimeout
    \/ ScanStreamError
    \/ ScanStart
    \/ ScanStartSettled
    \/ ScanToken

InitScan == InitCount /\ urlOk

SpecScan ==
    /\ InitScan
    /\ [][NextScan]_vars
    /\ WF_vars(ScanRender)
    /\ WF_vars(ScanReconnectTimeout)

FirstConnect == token = NoToken /\ UserConnect

NextLoop ==
    \/ FirstConnect
    \/ TransportOpen
    \/ SettleTimer
    \/ AuthTimer
    \/ Frame
    \/ TransportClose
    \/ ReconnectTimer
    \/ HeartbeatTimer

SpecLoop ==
    /\ Init
    /\ [][NextLoop]_vars
    /\ WF_vars(ReconnectTimer)
    /\ WF_vars(SettleTimer)
    /\ WF_vars(AuthTimer)
    /\ WF_vars(HeartbeatTimer)
    /\ WF_vars(TransportOpen)

\* ------------------------------------------------------------ properties
Events(name) == {i \in DOMAIN ev : ev[i].e = name}

\* C1: after disconnect() and until the user calls connect() again, no
\* 'reconnecting' notification is emitted (and with it no reconnect timer
\* set) and no transport is created.
NoReconnectAfterDisconnect ==
    /\ \A i \in Events("reconnecting") : ~ev[i].afterDisc
    /\ \A i \in Events("transport_new") : ~ev[i].afterDisc
    /\ userDisc => reconnectTimeout = "null"

\* C2: when the handshake of a connect() started from disconnected fails by
\* auth_error or by the 5000 ms timeout, the connect() is rejected and the
\* state is disconnected once it has been rejected.
AuthFailureLeavesDisconnected ==
    \A i \in Events("reject") :
        (ev[i].fd /\ ev[i].cause \in {"auth_error", "auth_timeout"})
            => connectionState = "disconnected"

\* C3: whenever a connect() operation resolves, the state is authenticated.
ResolveOnlyAuthenticated ==
    \A i \in Events("resolve") : ev[i].st = "authenticated"

\* C4: at every emission of 'reconnected' the state is authenticated.
ReconnectedOnlyAuthenticated ==
    \A i \in Events("reconnected") : ev[i].st = "authenticated"

\* C5: between an unexpected drop of an authenticated session and the next
\* authenticated connection (no disconnect() in between) at most 10
\* 'reconnecting' notifications occur.
AtMostTenAttempts == nRec <= maxReconnectAttempts

\* C6: from a fresh policy, the k-th consecutive reconnect attempt carries
\* the delay min(1000 * 2^(k-1), 30000).
BackoffSequence ==
    \A i \in Events("reconnecting") :
        ev[i].loop = "fresh" =>
            ev[i].delay = Min(BaseInterval * 2 ^ (ev[i].k - 1), maxReconnectInterval)

\* C7: whenever the state becomes authenticated, reconnectAttempts is 0 and
\* reconnectInterval is 1000.
PolicyResetOnAuthenticated ==
    \A i \in Events("authenticated") :
        ev[i].attempts = 0 /\ ev[i].interval = BaseInterval

\* C8: a close event hands off to attemptReconnect if and only if its code
\* is not 1000 and the authenticated flag was set when it arrived.
HandedOff(i) ==
    \E j \in DOMAIN ev :
        j > i /\ ev[j].e \in {"reconnecting", "max_reconnect_attempts_reached"}

CloseHandsOffIff ==
    \A i \in Events("close") :
        HandedOff(i) <=> (ev[i].code # NormalClosure /\ ev[i].wasAuth)

CloseHandsOffWitness ==
    \E i \in Events("close") :
        ev[i].code # NormalClosure /\ ev[i].wasAuth /\ HandedOff(i)

ManualConnectCancelsTimer ==
    \A i \in Events("timer_fire") : ~ev[i].tainted

\* C11: between tasks, a heartbeat interval timer exists if and only if the
\* connection state is authenticated.
HeartbeatIffAuthenticated ==
    heartbeatInterval <=> connectionState = "authenticated"

\* C12: the client holds a transport (ws is not null) if and only if the
\* state is connecting, connected or authenticated.
HandleIffState ==
    (ws # 0) <=> connectionState \in {"connecting", "connected", "authenticated"}

\* C13: whenever a ping frame is sent, the state is authenticated.
PingOnlyAuthenticated ==
    \A i \in Events("ping") : ev[i].st = "authenticated"

\* C14: when disconnect() returns the state is disconnected, the
\* authenticated flag is false, no heartbeat timer and no reconnect timer
\* exist, ws is null, and close(1000) has been called on the transport that
\* was held.
DisconnectPostconditions ==
    \A i \in Events("disconnect_return") :
        /\ ev[i].st = "disconnected"
        /\ ~ev[i].auth
        /\ ~ev[i].hb
        /\ ev[i].timer = "null"
        /\ ev[i].ws = 0
        /\ ev[i].held =>
              /\ i > 1
              /\ ev[i - 1].e = "ws_close"
              /\ ev[i - 1].code = NormalClosure
              /\ ev[i - 1].rs = "CLOSING"

\* disconnect() returned after it was called with a transport held and a
\* reconnect timer pending
DisconnectWitness ==
    \E i \in Events("disconnect_return") : ev[i].held /\ ev[i].hadTimer

\* C15: a connect() called by the user in state connected or authenticated
\* resolves at once and changes nothing: token, state, transport, reconnect
\* policy, timers, handshake listeners and handler registry are as before.
IsUserConnect(log) ==
    /\ log # <<>>
    /\ \/ log[1].e = "resolve" /\ log[1].early /\ log[1].kind = "manual"
       \/ log[1].e = "transport_new" /\ log[1].by = "manual"
       \/ log[1].e = "reject" /\ log[1].cause = "create" /\ log[1].kind = "manual"

ConnectWhenConnectedIsNoOp ==
    [][(connectionState \in {"connected", "authenticated"} /\ IsUserConnect(ev'))
         => /\ ev' = <<[e |-> "resolve", kind |-> "manual",
                        st |-> connectionState, early |-> TRUE]>>
            /\ UNCHANGED <<ws, token, authenticated, reconnectAttempts,
                           reconnectInterval, heartbeatInterval, reconnectTimeout,
                           connectionState, leaked, tr, eventHandlers>>]_vars

\* a connect() has just resolved at once while a reconnect timer is pending
ConnectWhenConnectedWitness ==
    /\ IsUserConnect(ev)
    /\ ev[1].e = "resolve"
    /\ connectionState \in {"connected", "authenticated"}
    /\ reconnectTimeout = "pending"

\* C16: in the task that follows the one in which
\* max_reconnect_attempts_reached was emitted, no 'reconnecting' notification
\* is emitted and the scheduler creates no transport.
ExhaustionIsTerminal ==
    [][(Events("max_reconnect_attempts_reached") # {})
         => \A i \in DOMAIN ev' :
               /\ ev'[i].e # "reconnecting"
               /\ ~(ev'[i].e = "transport_new" /\ ev'[i].by = "sched")]_vars

\* the handler invocations of the last task, in order
Calls == SelectSeq(ev, LAMBDA r : r.e = "call")

\* the client's state now, as View takes it
ClientView == <<ws, token, authenticated, reconnectAttempts, reconnectInterval,
                heartbeatInterval, reconnectTimeout, connectionState, leaked, tr,
                eventHandlers>>

\* C17: a well-formed frame whose type is not pong is delivered, in the task
\* of its arrival, to the handlers registered for its type when it arrived:
\* to each of them, in their order, and to nothing else; a task delivers one
\* frame, so deliveries follow the order of arrival.
DeliveredOnceInArrivalOrder ==
    /\ Cardinality(Events("frame")) <= 1
    /\ \A j \in Events("call") :
          \E i \in Events("frame") : i < j /\ ev[i].type = ev[j].type
    /\ \A i \in Events("frame") :
          ev[i].type # "pong" =>
              /\ Len(Calls) = Len(ev[i].registered)
              /\ \A k \in DOMAIN Calls : Calls[k].h = ev[i].registered[k]

\* a frame has been delivered to two registered handlers
DeliveredToBothWitness ==
    \E i \in Events("frame") :
        Len(ev[i].registered) = 2 /\ Len(Calls) = 2

\* C18: however often on(t, h) was called, the set of t holds h once, an
\* event of type t invokes h exactly once, and one off(t, h) removes h.
IdempotentRegistration ==
    /\ \A t \in DOMAIN eventHandlers : \A k, m \in DOMAIN eventHandlers[t] :
          eventHandlers[t][k] = eventHandlers[t][m] => k = m
    /\ \A i \in Events("frame") : \A h \in Handlers :
          (ev[i].type # "pong" /\ InSeq(h, ev[i].registered)) =>
              Cardinality({j \in Events("call") : ev[j].h = h}) = 1
    /\ \A i \in Events("off") :
          ~InSeq(ev[i].h, Registered(Cur, ev[i].type))

\* an event was delivered to a handler that on() was called for twice
RegisteredTwiceWitness ==
    \E i \in Events("frame") : \E h \in Handlers :
        /\ <<ev[i].type, h>> \in dupOn
        /\ Cardinality({j \in Events("call") : ev[j].h = h}) = 1

\* C19: when a handler throws during the delivery of an event, the handlers
\* registered after it are still invoked for that event, and neither the
\* connection state nor the registry (hence no later delivery) changes.
ThrowIsIsolated ==
    \A j \in Events("call") :
        ev[j].threw =>
            \E i \in Events("frame") :
                /\ i < j
                /\ ev[i].registered[j - i] = ev[j].h
                /\ \A m \in (j - i + 1)..Len(ev[i].registered) :
                      /\ i + m \in DOMAIN ev
                      /\ ev[i + m].e = "call"
                      /\ ev[i + m].h = ev[i].registered[m]
                /\ ClientView = ev[i].pre

\* the first of two handlers threw and the second was invoked
ThrowThenNextWitness ==
    \E j \in Events("call") :
        /\ ev[j].threw
        /\ j + 1 \in Events("call")

\* C20: a pong frame invokes no handler, not even one registered for the
\* type pong, and changes nothing of the client's state.
PongInvokesNothing ==
    \A i \in Events("frame") :
        ev[i].type = "pong" => (Events("call") = {} /\ ClientView = ev[i].pre)

\* a pong frame has arrived while a handler was registered for pong
PongWithHandlerWitness ==
    \E i \in Events("frame") :
        ev[i].type = "pong" /\ InSeq("h1", Registered(Cur, "pong"))

\* C21: no step of connection churn (connect, disconnect, transport events,
\* handshake, handshake timeout, frames, reconnect and heartbeat timers)
\* changes which consumer handlers are registered: with no on() or off()
\* call the registry stays what it was.
RegistryUnchangedByChurn == [][eventHandlers' = eventHandlers]_vars

\* a session dropped and a reconnect cycle completed with handlers registered
ChurnWithHandlersWitness ==
    /\ Events("reconnected") # {}
    /\ everAuth
    /\ Registered(Cur, "progress") = <<"h1", "h2">>

\* C22: at the end of the task in which the transport of an authenticated
\* session closed with a code other than 1000 and the scheduler set its
\* timer, getConnectionState() (the connectionState field) is reconnecting.
ReportsReconnecting ==
    ((\E i \in Events("close") : ev[i].wasAuth /\ ev[i].code # NormalClosure)
        /\ reconnectTimeout = "pending")
    => connectionState = "reconnecting"

\* C23: no auth_success / auth_error listener of a handshake that has ended
\* (by auth_success, by auth_error or by its 5000 ms timeout) is still
\* registered: the registry holds only the listeners of handshakes in progress.
NoHandshakeListenerLeft == leaked = 0

\* C24: every task in which the transport of an authenticated session closed
\* unexpectedly and the scheduler took over is eventually followed by the end
\* of the reconnection loop: the client is authenticated again or emits
\* reconnected, or it emits max_reconnect_attempts_reached, or disconnect()
\* is called (runs in which timed-out handshakes pile up to the bound of the
\* model count as ended).
LoopStarted ==
    /\ \E i \in Events("close") : ev[i].wasAuth /\ ev[i].code # NormalClosure
    /\ Events("reconnecting") # {}

LoopEnded ==
    \/ authenticated
    \/ userDisc
    \/ Events("reconnected") # {}
    \/ Events("max_reconnect_attempts_reached") # {}
    \/ leaked = MaxLeaked

LoopEventuallyEnds == LoopStarted ~> LoopEnded

\* C25: no connect() promise is left unsettled once nothing can settle it any
\* more (its transport has closed, no settle delay, handshake listener or
\* handshake timeout of it is pending): every connect() is settled at the
\* latest when its transport and timers are gone.
NoConnectAbandoned == Events("abandoned") = {}

\* C26: the open event or the close event of a transport that is not the
\* current handle changes neither the connection state, nor the
\* authenticated flag, nor the transport handle, nor the heartbeat.
StaleEventsChangeNothing ==
    [][\A i \in Slots :
          (/\ ws # i
           /\ \/ tr[i].rs = "CONNECTING" /\ tr'[i].rs = "OPEN"
              \/ tr[i].rs \in {"CONNECTING", "OPEN", "CLOSING"}
                    /\ tr'[i].rs \in {"CLOSED", "FREE"})
          => UNCHANGED <<connectionState, authenticated, ws, heartbeatInterval>>]_vars

\* C27: at most one transport created by the manager is connecting or open
\* at any time.
LiveTransports == {i \in Slots : tr[i].rs \in {"CONNECTING", "OPEN"}}

AtMostOneLiveTransport == Cardinality(LiveTransports) <= 1

\* C28: from the return of disconnect() until the next connect() of the user,
\* the state is neither connected nor authenticated, the authenticated flag
\* is not set, no heartbeat runs and no connect() is resolved.
StaysDisconnected ==
    userDisc => /\ connectionState \notin {"connected", "authenticated"}
                /\ ~authenticated
                /\ ~heartbeatInterval
                /\ Events("resolve") = {}

\* C29: at most one reconnection loop is active: the pending reconnect timer
\* and the scheduler's connect cycles in flight (promises of the scheduler
\* not yet settled) number at most one together.
CyclesInFlight == {i \in Slots : tr[i].rs # "FREE" /\ tr[i].kind = "sched" /\ ~tr[i].settled}

AtMostOneLoop ==
    Cardinality(CyclesInFlight) + (IF reconnectTimeout = "pending" THEN 1 ELSE 0) <= 1

\* C30: in the task in which the transport of an authenticated session closes
\* with a code other than 1000 while the retry policy is fresh, the heartbeat
\* is stopped when the one 'disconnected' notification is emitted, exactly one
\* 'reconnecting' follows it, with attempt 1, maxAttempts 10 and delay 1000,
\* and no transport is created: the reconnect timer is pending at the end of
\* the task. The scheduler creates a transport only in the callback of that timer.
FreshDrop(i) ==
    ev[i].e = "close" /\ ev[i].wasAuth /\ ev[i].code # NormalClosure /\ ev[i].fresh

DropSequence ==
    /\ \A i \in DOMAIN ev :
          FreshDrop(i) =>
              /\ ~ev[i].hb
              /\ ~heartbeatInterval
              /\ Events("close") = {i}
              /\ \E j \in Events("reconnecting") :
                    /\ Events("reconnecting") = {j}
                    /\ i < j
                    /\ ev[j].attempt = 1
                    /\ ev[j].maxAttempts = 10
                    /\ ev[j].delay = 1000
              /\ Events("transport_new") = {}
              /\ reconnectTimeout = "pending"
    /\ \A j \in Events("transport_new") :
          ev[j].by = "sched" => \E k \in Events("timer_fire") : k < j

\* a fresh drop was handed to the scheduler
DropSequenceWitness ==
    \E i \in DOMAIN ev : FreshDrop(i) /\ Events("reconnecting") # {}

\* C31: in every state the authenticated flag is set if and only if
\* connectionState is authenticated.
FlagIffAuthenticatedState == authenticated <=> (connectionState = "authenticated")

\* C33: when the constructor of the transport throws inside a connect() of
\* the user, the task rejects the returned promise and does nothing else:
\* afterwards the state is disconnected, no transport handle is held, no
\* transport exists, no reconnect timer is pending, and the retry policy and
\* the heartbeat are as before.
CreationFailureRejects ==
    [][(~urlOk /\ IsUserConnect(ev'))
         => /\ Len(ev') = 1
            /\ ev'[1].e = "reject" /\ ev'[1].cause = "create"
            /\ ev'[1].st = "disconnected"
            /\ connectionState' = "disconnected"
            /\ ws' = 0
            /\ reconnectTimeout' = "null"
            /\ \A i \in Slots : tr'[i].rs = "FREE"
            /\ UNCHANGED <<reconnectAttempts, reconnectInterval,
                           heartbeatInterval, authenticated>>]_vars

\* a connect() of the user has just been rejected by the throwing constructor
CreationFailureWitness ==
    /\ ~urlOk
    /\ IsUserConnect(ev)
    /\ ev[1].e = "reject"
    /\ token # NoToken

\* C39: in every state 0 <= reconnectAttempts <= 10 and
\* 1000 <= reconnectInterval <= 30000, and reconnectInterval is 30000 or
\* 1000 times a power of two.
RECURSIVE IsBaseTimesPowerOfTwo(_)
IsBaseTimesPowerOfTwo(n) ==
    IF n = BaseInterval THEN TRUE
    ELSE IF n < BaseInterval \/ n % 2 # 0 THEN FALSE
    ELSE IsBaseTimesPowerOfTwo(n \div 2)

PolicyInRange ==
    /\ 0 <= reconnectAttempts /\ reconnectAttempts <= 10
    /\ 1000 <= reconnectInterval /\ reconnectInterval <= 30000
    /\ reconnectInterval = 30000 \/ IsBaseTimesPowerOfTwo(reconnectInterval)

\* the budget is used up and the interval has reached its cap
PolicyAtLimitsWitness == reconnectAttempts = 10 /\ reconnectInterval = 30000

\* C35: off(type, handler) is total and idempotent: removing a handler that is
\* not registered, or a handler of a type that has no entry, changes nothing;
\* after off the handler is not registered and a second off of the same pair
\* would leave the registry as the first left it; the registry never maps a
\* type to an empty set.
OffIdempotentAndTotal ==
    [][/\ \A t \in DOMAIN eventHandlers' : eventHandlers'[t] # <<>>
       /\ \A k \in DOMAIN ev' : ev'[k].e = "off" =>
             /\ ~InSeq(ev'[k].h, Registered(Cur', ev'[k].type))
             /\ off(Cur', ev'[k].type, ev'[k].h).eventHandlers = eventHandlers'
             /\ ~ev'[k].was => eventHandlers' = eventHandlers]_vars

\* the last handler of a type has been removed and the type has left the map,
\* while another type keeps its handlers
LastHandlerRemovedWitness ==
    /\ \E k \in DOMAIN ev : /\ ev[k].e = "off" /\ ev[k].was
                              /\ ev[k].type \notin DOMAIN eventHandlers
    /\ eventHandlers # EmptyRegistry

\* C36: the lifecycle notifications (disconnected, reconnecting, reconnected,
\* max_reconnect_attempts_reached) come from the manager's own transitions
\* only: no inbound frame, whatever its type field, makes the client call a
\* handler registered for one of these types.
NoLifecycleCallFromFrame ==
    \A k \in Events("frame") :
        ev[k].type \in LifecycleTypes =>
            \A j \in Events("call") : ~(j > k /\ ev[j].type = ev[k].type)

\* C34: an inbound frame that does not parse to an envelope is dropped: the
\* task calls no handler and does nothing else, the connection state, the
\* timers, the transports and the registry are as before, and a well-formed
\* frame arriving next (other than the pong of the heartbeat) is delivered to
\* every handler registered for its type.
MalformedFrameDropped ==
    [][(\E k \in DOMAIN ev' : ev'[k].e = "malformed") =>
          /\ Len(ev') = 1
          /\ View(Cur') = View(Cur)
          /\ \A t \in DOMAIN eventHandlers' \ {"auth_success", "auth_error", "pong"} :
                LET log == onmessage(Cur', t, {}).ev
                IN \A h \in Handlers :
                      InSeq(h, eventHandlers'[t]) <=>
                          \E j \in DOMAIN log : /\ log[j].e = "call"
                                                /\ log[j].type = t
                                                /\ log[j].h = h]_vars

\* a frame that does not parse has arrived at a client with handlers
\* registered for progress frames
MalformedFrameWitness ==
    /\ \E k \in DOMAIN ev : ev[k].e = "malformed" /\ ev[k].data = Malformed
    /\ Registered(Cur, "progress") # <<>>
    /\ connectionState = "authenticated"

\* C32: a transport error event notifies every subscriber of 'error' once,
\* whether or not one of them throws; it rejects the pending connect() exactly
\* when the state is connecting at that moment; and when the error handler
\* is done the connection state and the reconnect policy are what they were
\* when it began.
ErrorEventOnlyNotifies ==
    \A k \in Events("error") :
        /\ Events("error") = {k}
        /\ \E r \in Events("error_return") :
              /\ Events("error_return") = {r}
              /\ r = k + Len(ev[k].registered) + 1
              /\ \A j \in (k + 1)..(r - 1) :
                    /\ ev[j].e = "call" /\ ev[j].type = "error"
                    /\ ev[j].h = ev[k].registered[j - k]
              /\ ev[r].st = ev[k].st
              /\ ev[r].attempts = ev[k].attempts
              /\ ev[r].interval = ev[k].interval
        /\ (\E j \in Events("reject") : ev[j].cause = "transport_error")
              <=> (ev[k].st = "connecting" /\ ev[k].pending)

\* an error event during connecting with two subscribers, the first of which
\* threw, and the connect() promise rejected
ErrorWhileConnectingWitness ==
    \E k \in Events("error") :
        /\ ev[k].st = "connecting" /\ ev[k].pending
        /\ ev[k].registered = <<"h1", "h2">>
        /\ ev[k + 1].threw
        /\ \E j \in Events("reject") : ev[j].cause = "transport_error"

\* C37: whatever the sequence of mounts, unmounts, toggles of enabled and
\* connect() calls, the handlers the adapter holds in the registry of the
\* shared client for an event type are at most one per hook instance that is
\* mounted at that moment.
AtMostOneHandlerPerMountedHook ==
    \A t \in DOMAIN eventHandlers :
        Len(eventHandlers[t]) <= Cardinality({h \in Handlers : hook[h].mounted})

\* C38: when the reconnect effect of ScanControl finds an active scan with no
\* open stream, no start mutation pending and no reconnect attempted yet, and
\* schedules the delayed reconnect, connectToStreamingEndpoint is eventually
\* called with isReconnect = true, unless the scan ends or the user starts one
\* before that.
ReconnectScheduled == sc.timeoutId # 0 /\ sc.reconnects = 0
ReconnectCalled == sc.reconnects > 0 \/ sc.isPending \/ ~sc.isActive
ScheduledReconnectFires == ReconnectScheduled ~> ReconnectCalled

====
